---------------------------- MODULE Spec2Model ----------------------------
(***************************************************************************)
(* A model of the IGES decoding pipeline of src/src/IGESLoader.ts:         *)
(* IGESLoader.parse -> parseIges (line splitter, five section parsers,     *)
(* entity dispatch) and the field decoders parseIgesString/parseIgesFloat. *)
(*                                                                         *)
(* Text is modelled at character level: a JavaScript string is a sequence  *)
(* of one-character strings.  A JavaScript number is a record              *)
(* [k, m, e]: k = "num" is the decimal m * 10^e (normalised), k = "nan"    *)
(* is NaN and k = "inf" is +/-Infinity (sign in m).  An optional string    *)
(* (string | undefined) is <<>> for undefined and <<s>> for the string s.  *)
(***************************************************************************)
EXTENDS Integers, Sequences, FiniteSets, TLC

(***************************************************************************)
(* Bounds of the model.                                                    *)
(***************************************************************************)
MaxItems == 2
\* The longest count and the most characters of a Hollerith token.
MaxCount == 4
MaxChars == 4
\* The most Directory records of a Directory buffer decoded on its own.
MaxRecords == 2

(***************************************************************************)
(* JavaScript string primitives used by the loader.                        *)
(***************************************************************************)
Min(a, b) == IF a < b THEN a ELSE b
Max(a, b) == IF a < b THEN b ELSE a

Digit == {"0", "1", "2", "3", "4", "5", "6", "7", "8", "9"}
DigitVal(c) ==
    CASE c = "0" -> 0 [] c = "1" -> 1 [] c = "2" -> 2 [] c = "3" -> 3
      [] c = "4" -> 4 [] c = "5" -> 5 [] c = "6" -> 6 [] c = "7" -> 7
      [] c = "8" -> 8 [] c = "9" -> 9
DigitChar(n) ==
    CASE n = 0 -> "0" [] n = 1 -> "1" [] n = 2 -> "2" [] n = 3 -> "3"
      [] n = 4 -> "4" [] n = 5 -> "5" [] n = 6 -> "6" [] n = 7 -> "7"
      [] n = 8 -> "8" [] n = 9 -> "9"

\* The characters String.prototype.trim and parseInt/parseFloat skip.
WhiteSpace == {" ", "\t", "\n", "\r", "\f"}

\* str.substr(start, length), start >= 0; a NaN or negative length gives "".
Substr(s, start, len) ==
    IF len <= 0 THEN <<>> ELSE SubSeq(s, start + 1, Min(start + len, Len(s)))

\* str.substr(start): to the end of the string.
SubstrFrom(s, start) == SubSeq(s, start + 1, Len(s))

\* str.trim()
Trim(s) ==
    LET keep == {j \in 1..Len(s) : s[j] \notin WhiteSpace}
    IN  IF keep = {} THEN <<>>
        ELSE SubSeq(s, CHOOSE j \in keep : \A k \in keep : j <= k,
                       CHOOSE j \in keep : \A k \in keep : k <= j)

\* The part of s after its leading white space (the first step of parseInt
\* and parseFloat).
TrimStart(s) ==
    LET keep == {j \in 1..Len(s) : s[j] \notin WhiteSpace}
    IN  IF keep = {} THEN <<>>
        ELSE SubSeq(s, CHOOSE j \in keep : \A k \in keep : j <= k, Len(s))

\* Whether pat occurs in s at 0-based offset p.
MatchAt(s, pat, p) ==
    /\ p + Len(pat) <= Len(s)
    /\ \A j \in 1..Len(pat) : s[p + j] = pat[j]

\* str.indexOf(pat): the 0-based offset of the first occurrence, or -1.
IndexOf(s, pat) ==
    LET hits == {p \in 0..Len(s) : MatchAt(s, pat, p)}
    IN  IF hits = {} THEN -1 ELSE CHOOSE p \in hits : \A q \in hits : p <= q

\* str.split(sep) for a non-empty separator string.
RECURSIVE Split(_, _)
Split(s, sep) ==
    LET p == IndexOf(s, sep)
    IN  IF p = -1 THEN <<s>>
        ELSE <<SubSeq(s, 1, p)>> \o Split(SubstrFrom(s, p + Len(sep)), sep)

\* The split leaving a "\r" before the "\n" in the line: data.split("\n").
SplitLinesOnLF(s) == Split(s, <<"\n">>)

\* data.split(/\r?\n/): a line ends at "\n", and a "\r" right before that
\* "\n" belongs to the line ending.
RECURSIVE SplitLines(_)
SplitLines(s) ==
    LET p == IndexOf(s, <<"\n">>)
    IN  IF p = -1 THEN <<s>>
        ELSE <<SubSeq(s, 1, IF p > 0 /\ s[p] = "\r" THEN p - 1 ELSE p)>>
                 \o SplitLines(SubstrFrom(s, p + 1))

\* array.filter(pred)
RECURSIVE NonEmpty(_)
NonEmpty(ls) ==
    IF ls = <<>> THEN <<>>
    ELSE (IF Len(Head(ls)) > 0 THEN <<Head(ls)>> ELSE <<>>) \o NonEmpty(Tail(ls))

\* p.replace(/D/g, "e")
ReplaceD(s) == [j \in 1..Len(s) |-> IF s[j] = "D" THEN "e" ELSE s[j]]

(***************************************************************************)
(* JavaScript numbers.                                                     *)
(***************************************************************************)
NaN == [k |-> "nan", m |-> 0, e |-> 0]
Infinity(sign) == [k |-> "inf", m |-> sign, e |-> 0]

RECURSIVE NumDigits(_)
NumDigits(n) == IF n < 10 THEN 1 ELSE 1 + NumDigits(n \div 10)

Abs(n) == IF n < 0 THEN -n ELSE n

\* The number m * 10^e: trailing zeros of m move into e, and a magnitude
\* beyond the double range becomes Infinity (resp. 0).
RECURSIVE Num(_, _)
Num(m, e) ==
    IF m = 0 THEN [k |-> "num", m |-> 0, e |-> 0]
    ELSE IF Abs(m) % 10 = 0 THEN Num((IF m < 0 THEN -1 ELSE 1) * (Abs(m) \div 10), e + 1)
    ELSE IF NumDigits(Abs(m)) + e > 309 THEN Infinity(IF m < 0 THEN -1 ELSE 1)
    ELSE IF NumDigits(Abs(m)) + e < -323 THEN [k |-> "num", m |-> 0, e |-> 0]
    ELSE [k |-> "num", m |-> m, e |-> e]

Int2Num(n) == Num(n, 0)

RECURSIVE Pow10(_)
Pow10(n) == IF n <= 0 THEN 1 ELSE 10 * Pow10(n - 1)

\* a + b
NumAdd(a, b) ==
    IF a.k = "nan" \/ b.k = "nan" THEN NaN
    ELSE IF a.k = "inf" /\ b.k = "inf" THEN (IF a.m = b.m THEN a ELSE NaN)
    ELSE IF a.k = "inf" THEN a
    ELSE IF b.k = "inf" THEN b
    ELSE LET lo == Min(a.e, b.e)
         IN  Num(a.m * Pow10(a.e - lo) + b.m * Pow10(b.e - lo), lo)

\* -a
NumNeg(a) == IF a.k = "nan" THEN a ELSE [a EXCEPT !.m = -a.m]

\* a - b
NumSub(a, b) == NumAdd(a, NumNeg(b))

\* n * a for a small integer n > 0
NumTimes(n, a) == IF a.k = "num" THEN Num(n * a.m, a.e) ELSE a

\* Whether the number is an integer value (a usable array index when >= 0).
IsInteger(a) == a.k = "num" /\ a.e >= 0

IntOf(a) == a.m * Pow10(a.e)

\* i < a, for an integer i
IntLess(i, a) ==
    CASE a.k = "nan" -> FALSE
      [] a.k = "inf" -> a.m > 0
      [] OTHER -> IF a.e >= 0 THEN i < a.m * Pow10(a.e)
                  ELSE i * Pow10(-a.e) < a.m

\* Number.prototype.toString for the values parseInt yields.
RECURSIVE Dec(_)
Dec(n) == IF n < 10 THEN <<DigitChar(n)>> ELSE Dec(n \div 10) \o <<DigitChar(n % 10)>>

NumToString(a) ==
    CASE a.k = "nan" -> <<"N", "a", "N">>
      [] a.k = "inf" -> (IF a.m < 0 THEN <<"-">> ELSE <<>>)
                          \o <<"I", "n", "f", "i", "n", "i", "t", "y">>
      [] OTHER -> (IF a.m < 0 THEN <<"-">> ELSE <<>>) \o Dec(Abs(IntOf(a)))

\* The number of leading characters of s that are decimal digits.
DigitRun(s) ==
    LET stops == {j \in 1..Len(s) : s[j] \notin Digit}
    IN  IF stops = {} THEN Len(s)
        ELSE (CHOOSE j \in stops : \A k \in stops : j <= k) - 1

RECURSIVE DigitsVal(_)
DigitsVal(s) ==
    IF s = <<>> THEN 0 ELSE 10 * DigitsVal(SubSeq(s, 1, Len(s) - 1)) + DigitVal(s[Len(s)])

\* parseInt(str): leading white space, an optional sign, then the longest run
\* of decimal digits; NaN when there is none.
ParseInt(str) ==
    LET t == TrimStart(str)
        neg == t # <<>> /\ t[1] = "-"
        body == IF t # <<>> /\ t[1] \in {"-", "+"} THEN Tail(t) ELSE t
        n == DigitRun(body)
    IN  IF n = 0 THEN NaN
        ELSE Int2Num((IF neg THEN -1 ELSE 1) * DigitsVal(SubSeq(body, 1, n)))

\* parseFloat(str): leading white space, an optional sign, then the longest
\* prefix that is "Infinity" or a decimal literal with an optional exponent.
ParseFloat(str) ==
    LET t == TrimStart(str)
        sign == IF t # <<>> /\ t[1] = "-" THEN -1 ELSE 1
        body == IF t # <<>> /\ t[1] \in {"-", "+"} THEN Tail(t) ELSE t
        n1 == DigitRun(body)
        afterInt == SubstrFrom(body, n1)
        hasDot == afterInt # <<>> /\ afterInt[1] = "."
        n2 == IF hasDot THEN DigitRun(Tail(afterInt)) ELSE 0
        afterFrac == IF hasDot THEN SubstrFrom(afterInt, 1 + n2) ELSE afterInt
        hasE == afterFrac # <<>> /\ afterFrac[1] \in {"e", "E"}
        afterE == IF hasE THEN Tail(afterFrac) ELSE <<>>
        eneg == afterE # <<>> /\ afterE[1] = "-"
        ebody == IF afterE # <<>> /\ afterE[1] \in {"-", "+"} THEN Tail(afterE) ELSE afterE
        n3 == DigitRun(ebody)
        exp == IF n3 = 0 THEN 0 ELSE (IF eneg THEN -1 ELSE 1) * DigitsVal(SubSeq(ebody, 1, n3))
        mant == DigitsVal(SubSeq(body, 1, n1) \o SubSeq(afterInt, 2, 1 + n2))
    IN  IF MatchAt(body, <<"I", "n", "f", "i", "n", "i", "t", "y">>, 0) THEN Infinity(sign)
        ELSE IF n1 + n2 = 0 THEN NaN
        ELSE Num(sign * mant, exp - n2)

(***************************************************************************)
(* Field decoders.                                                         *)
(***************************************************************************)
parseIgesFloat(p) == ParseFloat(ReplaceD(p))

\* The decoder taking its characters from the marker on: substr(d, ...).
parseIgesStringFromMarker(str) ==
    LET d == IndexOf(str, <<"H">>)
        n == ParseInt(Substr(str, 0, d))
    IN  IF d = -1 THEN <<>>
        ELSE <<Substr(str, d, IF n.k = "num" THEN IntOf(n) ELSE 0)>>

\* substr(d + 1, parseInt(digit)): a NaN length reads as 0.
parseIgesString(str) ==
    LET d == IndexOf(str, <<"H">>)
        digit == Substr(str, 0, d)
        n == ParseInt(digit)
    IN  IF d = -1 THEN <<>>
        ELSE <<Substr(str, d + 1, IF n.k = "num" THEN IntOf(n) ELSE 0)>>

(***************************************************************************)
(* The IGES accumulator (class IGES) and its five section parsers.         *)
(***************************************************************************)
\* value || fallback, for an optional string: undefined and "" take the fallback.
OrDefault(opt, fallback) == IF opt = <<>> \/ opt = << <<>> >> THEN fallback ELSE opt[1]

\* fields[k] (k is 0-based): undefined when out of range.
Field(fields, k) == IF k + 1 <= Len(fields) THEN <<fields[k + 1]>> ELSE <<>>

\* parseIgesString(fields[k] ?? "")
HField(fields, k) == parseIgesString(IF k + 1 <= Len(fields) THEN fields[k + 1] ELSE <<>>)

\* new Entity(): the default attribute { entityType: 0 }, type "0", no params.
NewEntity == [type |-> <<"0">>, attr |-> [entityType |-> Int2Num(0)], params |-> <<>>]

\* new IGES()
NewIGES ==
    [fieldDelimiter |-> <<",">>, termDelimiter |-> <<";">>, entities |-> <<>>,
     comment |-> <<>>, global |-> <<>>, lineNum |-> <<>>]

parseStart(iges, data) == [iges EXCEPT !.comment = <<data>>]

parseGlobal(iges, data) ==
    LET custom == data = <<>> \/ data[1] # ","
        fieldDelimiter == IF custom THEN OrDefault(parseIgesString(data), <<",">>)
                          ELSE iges.fieldDelimiter
        split == Split(data, fieldDelimiter)
        fields == IF custom THEN Tail(split) ELSE split
    IN  [iges EXCEPT
           !.fieldDelimiter = fieldDelimiter,
           !.termDelimiter = OrDefault(HField(fields, 1), <<";">>),
           !.global = <<
              [exportID |-> HField(fields, 2), fileName |-> HField(fields, 3),
               systemID |-> HField(fields, 4), translateVer |-> HField(fields, 5),
               integerBits |-> Field(fields, 6), singleExpBits |-> Field(fields, 7),
               singleMantissaBits |-> Field(fields, 8), doubleExpBits |-> Field(fields, 9),
               doubleMantissaBits |-> Field(fields, 10), receiveID |-> HField(fields, 11),
               scale |-> Field(fields, 12), unitFlag |-> Field(fields, 13),
               unit |-> HField(fields, 14), maxStep |-> Field(fields, 15),
               maxWidth |-> Field(fields, 16), createDate |-> HField(fields, 17),
               resolution |-> Field(fields, 18), maxValue |-> Field(fields, 19),
               createUser |-> HField(fields, 20), createOrg |-> HField(fields, 21),
               igesVer |-> Field(fields, 22), formatCode |-> Field(fields, 23),
               lastModifiedDate |-> HField(fields, 24)] >>]

\* The decoder reading the sequence number from column 73 on, the section
\* tag included: substr(72, 8).
DirectoryAttrFromTag(item) ==
    [entityType |-> ParseInt(Substr(item, 0, 8)),
     entityIndex |-> ParseInt(Substr(item, 8, 8)),
     igesVersion |-> ParseInt(Substr(item, 16, 8)),
     lineType |-> ParseInt(Substr(item, 24, 8)),
     level |-> ParseInt(Substr(item, 32, 8)),
     view |-> ParseInt(Substr(item, 40, 8)),
     transMatrix |-> ParseInt(Substr(item, 48, 8)),
     labelDisp |-> ParseInt(Substr(item, 56, 8)),
     status |-> Substr(item, 64, 8),
     sequenceNumber |-> ParseInt(Substr(item, 72, 8)),
     lineWidth |-> ParseInt(Substr(item, 88, 8)),
     color |-> ParseInt(Substr(item, 96, 8)),
     paramLine |-> ParseInt(Substr(item, 104, 8)),
     formNumber |-> ParseInt(Substr(item, 112, 8)),
     entityName |-> Trim(Substr(item, 136, 8)),
     entitySub |-> ParseInt(Substr(item, 144, 8))]

\* The attributes decoded from one 160-character window of the Directory buffer.
DirectoryAttr(item) ==
    [entityType |-> ParseInt(Substr(item, 0, 8)),
     entityIndex |-> ParseInt(Substr(item, 8, 8)),
     igesVersion |-> ParseInt(Substr(item, 16, 8)),
     lineType |-> ParseInt(Substr(item, 24, 8)),
     level |-> ParseInt(Substr(item, 32, 8)),
     view |-> ParseInt(Substr(item, 40, 8)),
     transMatrix |-> ParseInt(Substr(item, 48, 8)),
     labelDisp |-> ParseInt(Substr(item, 56, 8)),
     status |-> Substr(item, 64, 8),
     sequenceNumber |-> ParseInt(Substr(item, 73, 7)),
     lineWidth |-> ParseInt(Substr(item, 88, 8)),
     color |-> ParseInt(Substr(item, 96, 8)),
     paramLine |-> ParseInt(Substr(item, 104, 8)),
     formNumber |-> ParseInt(Substr(item, 112, 8)),
     entityName |-> Trim(Substr(item, 136, 8)),
     entitySub |-> ParseInt(Substr(item, 144, 8))]

\* for (i = 0; i < data.length; i += 160): one entity per window; the entity
\* keeps the type "0" its constructor gave it.
parseDirection(iges, data) ==
    [iges EXCEPT !.entities = @ \o
        [w \in 1..((Len(data) + 159) \div 160) |->
            [NewEntity EXCEPT !.attr = DirectoryAttr(Substr(data, 160 * (w - 1), 160))]]]

\* array.pop(): the array without its last element.
Pop(arr) == SubSeq(arr, 1, Len(arr) - 1)

\* parseParameter giving an entity the record its Directory pointer names.
parseParameterByPointer(iges, data) ==
    LET params == Pop(Split(data, <<";">>))
        splitParams == [j \in 1..Len(params) |-> Split(params[j], <<",">>)]
        Pointed(ent) == IF IsInteger(ent.attr.entityIndex) THEN IntOf(ent.attr.entityIndex) ELSE 0
    IN  [iges EXCEPT !.entities =
            [j \in 1..Len(@) |->
                IF 1 <= Pointed(@[j]) /\ Pointed(@[j]) <= Len(splitParams)
                THEN [@[j] EXCEPT
                        !.type = Head(splitParams[Pointed(@[j])]),
                        !.params = [q \in 1..(Len(splitParams[Pointed(@[j])]) - 1) |->
                                       parseIgesFloat(splitParams[Pointed(@[j])][q + 1])]]
                ELSE @[j]]]

\* parseParameter splitting on the delimiters parseGlobal stored.
parseParameterDeclared(iges, data) ==
    LET params == Pop(Split(data, iges.termDelimiter))
        splitParams == [j \in 1..Len(params) |-> Split(params[j], iges.fieldDelimiter)]
    IN  [iges EXCEPT !.entities =
            [j \in 1..Len(@) |->
                IF j <= Len(splitParams)
                THEN [@[j] EXCEPT
                        !.type = Head(splitParams[j]),
                        !.params = [q \in 1..(Len(splitParams[j]) - 1) |->
                                       parseIgesFloat(splitParams[j][q + 1])]]
                ELSE @[j]]]

parseParameter(iges, data) ==
    LET params == Pop(Split(data, <<";">>))
        splitParams == [j \in 1..Len(params) |-> Split(params[j], <<",">>)]
    IN  [iges EXCEPT !.entities =
            [j \in 1..Len(@) |->
                IF j <= Len(splitParams)
                THEN [@[j] EXCEPT
                        !.type = Head(splitParams[j]),
                        !.params = [q \in 1..(Len(splitParams[j]) - 1) |->
                                       parseIgesFloat(splitParams[j][q + 1])]]
                ELSE @[j]]]

\* The four counts of parseTerminate.
TerminateCounts(data) ==
    [S |-> ParseInt(Substr(data, 1, 7)), G |-> ParseInt(Substr(data, 9, 7)),
     D |-> ParseInt(Substr(data, 17, 7)), P |-> ParseInt(Substr(data, 25, 7))]

\* A JavaScript number used as a condition: NaN and 0 are false.
Truthy(a) == a.k = "inf" \/ (a.k = "num" /\ a.m # 0)

\* this.lineNum_D && this.entities.length !== this.lineNum_D / 2
InconsistentEntityCount(iges, data) ==
    LET D == TerminateCounts(data).D
    IN  Truthy(D) /\ ~(D.k = "num" /\ D.e >= 0 /\ 2 * Len(iges.entities) = IntOf(D))

parseTerminate(iges, data) == [iges EXCEPT !.lineNum = <<TerminateCounts(data)>>]

(***************************************************************************)
(* The geometry synthesizer: the draw* functions of parseIges.  A mesh is  *)
(* what the function hands to the scene-graph library: kind is the THREE   *)
(* class (Points or Line), points the positions passed to it, curve the    *)
(* arguments of EllipseCurve (whose sample points the library computes),   *)
(* and entity the index of the entity it was drawn for.                    *)
(***************************************************************************)
\* Number(entityParams[i]): NaN when the index is out of range.
Param(params, i) == IF 0 <= i /\ i < Len(params) THEN params[i + 1] ELSE NaN

\* Number(entityParams[x]) for a computed index x, which may not be an integer.
ParamAt(params, x) == IF IsInteger(x) THEN Param(params, IntOf(x)) ELSE NaN

\* The number of iterations of for (i = 0; i < n; i++) for a finite n.
LoopCount(n) ==
    IF n.k # "num" \/ n.m <= 0 THEN 0
    ELSE IF n.e >= 0 THEN IntOf(n)
    ELSE -((-n.m) \div Pow10(-n.e))

Mesh(kind, points, curve, idx) ==
    [kind |-> kind, points |-> points, curve |-> curve, entity |-> idx]

Log(level, msg, idx) == [level |-> level, msg |-> msg, at |-> idx]

\* What one call of a draw function does: the meshes it adds to the group
\* and the diagnostics it prints.
Drawn(meshes, logs) == [meshes |-> meshes, logs |-> logs]

Zero == Int2Num(0)

drawCArc(entity, idx) ==
    LET P(i) == Param(entity.params, i)
    IN  Drawn(<<Mesh("Line", <<>>,
                     <<P(1), P(2), NumSub(P(3), P(1)), NumSub(P(4), P(2)),
                       NumSub(P(5), P(1)), NumSub(P(6), P(2))>>, idx)>>, <<>>)

drawPath(entity, idx) ==
    LET P(i) == Param(entity.params, i)
        form == NumToString(entity.attr.formNumber)
        n == LoopCount(P(1))
        points ==
            CASE form = <<"1", "2">> ->
                   [j \in 1..n |-> <<P(2 + 3 * (j - 1)), P(3 + 3 * (j - 1)), P(4 + 3 * (j - 1))>>]
              [] form = <<"4", "0">> ->
                   [j \in 1..n |-> <<P(3 + 2 * (j - 1)), P(4 + 2 * (j - 1)), P(2)>>]
              [] form = <<"6", "3">> ->
                   [j \in 1..n |-> <<P(3 + 2 * (j - 1)), P(4 + 2 * (j - 1)), Zero>>]
              [] OTHER -> <<>>
    IN  Drawn(<<Mesh("Line", points, <<>>, idx)>>,
              IF form \in {<<"1", "2">>, <<"4", "0">>, <<"6", "3">>} THEN <<>>
              ELSE <<Log("log", "Unsupported Form Number", idx)>>)

\* drawLine adding no mesh for a form it does not support.
drawLineSkipsUnsupported(entity, idx) ==
    LET P(i) == Param(entity.params, i)
        form == NumToString(entity.attr.formNumber)
        ends == << <<P(0), P(1), P(2)>>, <<P(3), P(4), P(5)>> >>
    IN  IF form \in {<<"0">>, <<"2">>} \/ entity.attr.formNumber.k = "nan"
        THEN Drawn(<<Mesh("Line", ends, <<>>, idx)>>, <<>>)
        ELSE Drawn(<<>>, <<Log("log", "LINE ENTITY - TYPE 110 - Unsupported Form Number", idx)>>)

\* drawLine taking a form that is not a number for an unsupported one.
drawLineNumericFormsOnly(entity, idx) ==
    LET P(i) == Param(entity.params, i)
        form == NumToString(entity.attr.formNumber)
        ends == << <<P(0), P(1), P(2)>>, <<P(3), P(4), P(5)>> >>
    IN  IF form \in {<<"0">>, <<"2">>} THEN Drawn(<<Mesh("Line", ends, <<>>, idx)>>, <<>>)
        ELSE Drawn(<<Mesh("Line", <<>>, <<>>, idx)>>,
                   <<Log("log", "LINE ENTITY - TYPE 110 - Unsupported Form Number", idx)>>)

drawLine(entity, idx) ==
    LET P(i) == Param(entity.params, i)
        form == NumToString(entity.attr.formNumber)
        ends == << <<P(0), P(1), P(2)>>, <<P(3), P(4), P(5)>> >>
    IN  IF form \in {<<"0">>, <<"2">>} THEN Drawn(<<Mesh("Line", ends, <<>>, idx)>>, <<>>)
        ELSE IF entity.attr.formNumber.k = "nan"
        THEN Drawn(<<Mesh("Line", ends, <<>>, idx)>>, <<>>)
        ELSE Drawn(<<Mesh("Line", <<>>, <<>>, idx)>>,
                   <<Log("log", "LINE ENTITY - TYPE 110 - Unsupported Form Number", idx)>>)

\* drawPoint reading the parameters one place too far.
drawPointShifted(entity, idx) ==
    LET P(i) == Param(entity.params, i)
    IN  Drawn(<<Mesh("Points", << <<P(1), P(2), P(3)>> >>, <<>>, idx)>>, <<>>)

drawPoint(entity, idx) ==
    LET P(i) == Param(entity.params, i)
    IN  Drawn(<<Mesh("Points", << <<P(0), P(1), P(2)>> >>, <<>>, idx)>>, <<>>)

drawTransMatrix(entity, idx) ==
    IF NumToString(entity.attr.formNumber) = <<"0">> THEN Drawn(<<>>, <<>>)
    ELSE Drawn(<<>>, <<Log("log", "TRANSFORMATION MATRIX - TYPE 124 - Unsupported Form Number", idx)>>)

drawRBSplineCurve(entity, idx) ==
    LET K == Param(entity.params, 0)
        M == Param(entity.params, 1)
        N == NumSub(NumAdd(Int2Num(1), K), M)
        A == NumAdd(N, NumTimes(2, M))
        form == NumToString(entity.attr.formNumber)
        At(i, off) == ParamAt(entity.params, NumAdd(NumAdd(Int2Num(i * 3 + off), A), K))
        n == LoopCount(NumAdd(K, Int2Num(1)))
    IN  Drawn(<<Mesh("Line",
                     IF form \in {<<"0">>, <<"1">>}
                     THEN [j \in 1..n |-> <<At(j - 1, 8), At(j - 1, 9), At(j - 1, 10)>>]
                     ELSE <<>>,
                     <<>>, idx)>>, <<>>)

\* The types whose handler is an empty function (a TODO stub).
UnimplementedTypes ==
    {<<"1", "0", "2">>, <<"1", "0", "8">>, <<"1", "2", "0">>, <<"1", "2", "2">>,
     <<"1", "2", "8">>, <<"1", "4", "2">>, <<"1", "4", "4">>, <<"2", "1", "2">>,
     <<"2", "1", "4">>, <<"2", "1", "6">>, <<"3", "1", "4">>, <<"4", "0", "2">>,
     <<"4", "0", "6">>}

\* A loop of the handler whose bound is +Infinity never ends: it pushes
\* points until the engine runs out of memory.
LoopsForever(entity) ==
    \/ /\ entity.type = <<"1", "0", "6">>
       /\ NumToString(entity.attr.formNumber) \in {<<"1", "2">>, <<"4", "0">>, <<"6", "3">>}
       /\ Param(entity.params, 1) = Infinity(1)
    \/ /\ entity.type = <<"1", "2", "6">>
       /\ NumToString(entity.attr.formNumber) \in {<<"0">>, <<"1">>}
       /\ Param(entity.params, 0) = Infinity(1)

\* switch (entity.type) of the entity loop, for a handler that returns.
Draw(entity, idx) ==
    CASE entity.type = <<"1", "0", "0">> -> drawCArc(entity, idx)
      [] entity.type = <<"1", "0", "6">> -> drawPath(entity, idx)
      [] entity.type = <<"1", "1", "0">> -> drawLine(entity, idx)
      [] entity.type = <<"1", "1", "6">> -> drawPoint(entity, idx)
      [] entity.type = <<"1", "2", "4">> -> drawTransMatrix(entity, idx)
      [] entity.type = <<"1", "2", "6">> -> drawRBSplineCurve(entity, idx)
      [] entity.type \in UnimplementedTypes -> Drawn(<<>>, <<>>)
      [] OTHER -> Drawn(<<>>, <<Log("log", "Uncompliment entity type", idx)>>)

(***************************************************************************)
(* The section splitter: the line loop of parseIges.                       *)
(***************************************************************************)
NoSections ==
    [startSec |-> <<>>, globalSec |-> <<>>, dirSec |-> <<>>, paramSec |-> <<>>,
     terminateSec |-> <<>>]

\* data.split(/\r?\n/).filter((item) => item.length > 0)
Lines(data) == NonEmpty(SplitLines(data))

\* The length test taking a whole 80-column line as the minimum.
TooShortOf80(line) == Len(line) < 80

\* line.length < 73
TooShort(line) == Len(line) < 73

\* currentSection = line[72] ?? ""
SectionOf(line) == IF Len(line) >= 73 THEN line[73] ELSE ""

\* The switch ignoring every line that comes after a Terminate line.
AppendLineUntilTerminate(secs, line) ==
    LET line80 == Substr(line, 0, 80)
        tag == SectionOf(line)
    IN  IF secs.terminateSec # <<>> THEN secs
        ELSE CASE tag = "S" -> [secs EXCEPT !.startSec = @ \o Trim(Substr(line80, 0, 72))]
               [] tag = "G" -> [secs EXCEPT !.globalSec = @ \o Trim(Substr(line80, 0, 72))]
               [] tag = "D" -> [secs EXCEPT !.dirSec = @ \o line80]
               [] tag = "P" -> [secs EXCEPT !.paramSec = @ \o Trim(Substr(line80, 0, 64))]
               [] tag = "T" -> [secs EXCEPT !.terminateSec = @ \o Trim(Substr(line80, 0, 72))]
               [] OTHER -> secs

\* The switch on currentSection, for a line of at least 73 characters.
AppendLine(secs, line) ==
    LET line80 == Substr(line, 0, 80)
        tag == SectionOf(line)
    IN  CASE tag = "S" -> [secs EXCEPT !.startSec = @ \o Trim(Substr(line80, 0, 72))]
          [] tag = "G" -> [secs EXCEPT !.globalSec = @ \o Trim(Substr(line80, 0, 72))]
          [] tag = "D" -> [secs EXCEPT !.dirSec = @ \o line80]
          [] tag = "P" -> [secs EXCEPT !.paramSec = @ \o Trim(Substr(line80, 0, 64))]
          [] tag = "T" -> [secs EXCEPT !.terminateSec = @ \o Trim(Substr(line80, 0, 72))]
          [] OTHER -> secs

(***************************************************************************)
(* parseIges as a function of its text: what the line loop, the five       *)
(* parsers and the entity loop compute from it.                            *)
(***************************************************************************)
\* The line loop from line idx (0-based) on: the section buffers and the
\* warnings.
RECURSIVE SplitFrom(_, _, _, _)
SplitFrom(ls, idx, ss, warns) ==
    IF idx >= Len(ls) THEN [secs |-> ss, console |-> warns]
    ELSE IF TooShort(ls[idx + 1])
    THEN SplitFrom(ls, idx + 1, ss, Append(warns, Log("warn", "line too short", idx)))
    ELSE SplitFrom(ls, idx + 1, AppendLine(ss, ls[idx + 1]),
                   IF SectionOf(ls[idx + 1]) \in {"S", "G", "D", "P", "T"} THEN warns
                   ELSE Append(warns, Log("warn", "unknown section type", idx)))

\* iges after parseStart, parseGlobal, parseDirection and parseParameter.
Assemble(ss) ==
    parseParameter(parseDirection(parseGlobal(parseStart(NewIGES, ss.startSec), ss.globalSec),
                                  ss.dirSec), ss.paramSec)

\* The entity loop from entity idx (1-based) on.
RECURSIVE DrawFrom(_, _, _, _)
DrawFrom(entities, idx, meshes, logs) ==
    IF idx > Len(entities) THEN [end |-> "done", meshes |-> meshes, logs |-> logs]
    ELSE IF LoopsForever(entities[idx]) THEN [end |-> "exhausted", meshes |-> meshes, logs |-> logs]
    ELSE LET d == Draw(entities[idx], idx)
         IN  DrawFrom(entities, idx + 1, meshes \o d.meshes, logs \o d.logs)

parseIges(text) ==
    LET split == SplitFrom(Lines(text), 0, NoSections, <<>>)
        parsed == Assemble(split.secs)
        drawn == DrawFrom(parsed.entities, 1, <<>>, <<>>)
    IN  IF InconsistentEntityCount(parsed, split.secs.terminateSec)
        THEN [end |-> "error", secs |-> split.secs, entities |-> parsed.entities,
              geometry |-> <<>>, console |-> split.console]
        ELSE [end |-> drawn.end, secs |-> split.secs, entities |-> parsed.entities,
              geometry |-> drawn.meshes, console |-> split.console \o drawn.logs]

(***************************************************************************)
(* Input texts: IGES files built from 80-column lines.                     *)
(***************************************************************************)
Spaces(n) == [j \in 1..n |-> " "]
PadRight(s, n) == s \o Spaces(n - Len(s))
PadLeft(s, n) == Spaces(n - Len(s)) \o s

\* An 8-column right-justified directory field.
I8(s) == PadLeft(s, 8)

RECURSIVE Join(_, _)
Join(parts, sep) ==
    IF parts = <<>> THEN <<>>
    ELSE IF Len(parts) = 1 THEN parts[1]
    ELSE parts[1] \o sep \o Join(Tail(parts), sep)

\* A line of a section other than Directory: 72 columns of content, the
\* section tag in column 73, the sequence number in columns 74-80.
SectionLine(content, tag) == PadRight(content, 72) \o <<tag>> \o PadLeft(<<"1">>, 7)

\* The two lines of a Directory entry with the given type and form fields.
DirectoryLines(type, form) ==
    << I8(type) \o I8(<<"1">>) \o I8(<<"0">>) \o I8(<<"0">>) \o I8(<<"0">>) \o I8(<<"0">>)
         \o I8(<<"0">>) \o I8(<<"0">>) \o <<"0", "0", "0", "0", "0", "0", "0", "0">>
         \o <<"D">> \o PadLeft(<<"1">>, 7),
       I8(type) \o I8(<<"0">>) \o I8(<<"0">>) \o I8(<<"1">>) \o I8(form) \o Spaces(16)
         \o PadRight(<<"P", "T">>, 8) \o I8(<<"0">>) \o <<"D">> \o PadLeft(<<"2">>, 7) >>

\* A Parameter line holding one record: the tokens joined by "," and ended
\* by ";".
ParameterLine(tokens) == SectionLine(Join(tokens, <<",">>) \o <<";">>, "P")

TerminateLine(dcount) ==
    SectionLine(<<"S">> \o PadLeft(<<"1">>, 7) \o <<"G">> \o PadLeft(<<"1">>, 7)
                  \o <<"D">> \o PadLeft(dcount, 7) \o <<"P">> \o PadLeft(<<"1">>, 7), "T")

T100 == <<"1", "0", "0">>
T102 == <<"1", "0", "2">>
T106 == <<"1", "0", "6">>
T110 == <<"1", "1", "0">>
T116 == <<"1", "1", "6">>
T124 == <<"1", "2", "4">>
T126 == <<"1", "2", "6">>
T999 == <<"9", "9", "9">>
Huge == <<"1", "D", "9", "9", "9">>
D(n) == Dec(n)

\* The entities of the input files: the type and form fields of the
\* Directory entry and the tokens of the Parameter record (none: the entity
\* has no Parameter record).
EntityKinds ==
    << [type |-> T116, form |-> <<"0">>, tokens |-> <<T116, D(10), D(20), D(30)>>],
       [type |-> T110, form |-> <<"0">>,
        tokens |-> <<T110, <<"1", ".", "5">>, D(2), D(0), D(3), <<"4", "D", "1">>, <<"-", "6">> >>],
       [type |-> T110, form |-> <<"2">>, tokens |-> <<T110, D(1), D(2), D(3), D(4), D(5), D(6)>>],
       [type |-> T110, form |-> <<>>, tokens |-> <<T110, D(1), D(2), D(3), D(4), D(5), D(6)>>],
       [type |-> T110, form |-> <<"1">>, tokens |-> <<T110, D(1), D(2), D(3), D(4), D(5), D(6)>>],
       [type |-> T100, form |-> <<"0">>,
        tokens |-> <<T100, D(0), D(1), D(1), D(2), D(1), D(1), D(2)>>],
       [type |-> T106, form |-> <<"1", "2">>,
        tokens |-> <<T106, D(2), D(2), D(0), D(0), D(0), D(1), D(1), D(1)>>],
       [type |-> T106, form |-> <<"4", "0">>,
        tokens |-> <<T106, D(1), D(3), D(5), D(0), D(0), D(1), D(1), D(2), D(2)>>],
       [type |-> T106, form |-> <<"6", "3">>,
        tokens |-> <<T106, D(1), <<"1", ".", "5">>, D(0), D(1), D(1), D(2), D(2)>>],
       [type |-> T106, form |-> <<"1", "1">>, tokens |-> <<T106, D(1), D(2), D(0), D(0), D(1), D(1)>>],
       [type |-> T106, form |-> <<"1", "2">>, tokens |-> <<T106, D(2), Huge>>],
       [type |-> T126, form |-> <<"0">>,
        tokens |-> <<T126, D(1), D(1), D(0), D(0), D(1), D(0), D(0), D(0), D(1), D(1), D(1), D(1),
                     D(0), D(0), D(0), D(5), D(5), D(5), D(0), D(1), D(0), D(0), D(1)>>],
       [type |-> T126, form |-> <<"1">>, tokens |-> <<T126, Huge, D(1)>>],
       [type |-> T126, form |-> <<"2">>, tokens |-> <<T126, D(1), D(1)>>],
       [type |-> T124, form |-> <<"0">>, tokens |-> <<T124, D(1), D(0), D(0), D(0)>>],
       [type |-> T124, form |-> <<"1">>, tokens |-> <<T124, D(1), D(0), D(0), D(0)>>],
       [type |-> T102, form |-> <<"0">>, tokens |-> <<T102, D(1), D(1)>>],
       [type |-> T999, form |-> <<"0">>, tokens |-> <<T999, D(1)>>],
       [type |-> T116, form |-> <<"0">>, tokens |-> <<>>],
       [type |-> T116, form |-> <<"0">>, tokens |-> <<T116, <<"a", "b", "c">>, D(20), D(30)>>],
       [type |-> T116, form |-> <<"0">>, tokens |-> <<<<>>, D(1), D(2), D(3)>>],
       [type |-> T110, form |-> <<"0">>, tokens |-> <<T116, D(7), D(8), D(9)>>] >>

\* The lines of one entity: its Directory entry and, if it has one, its
\* Parameter record.
EntityLines(kind) ==
    DirectoryLines(kind.type, kind.form)
      \o (IF kind.tokens = <<>> THEN <<>> ELSE <<ParameterLine(kind.tokens)>>)

\* Lines that are not a whole entity: a line that is too short, one of 72
\* columns, a line of an
\* unknown section, an empty line, a Start line longer than 80 columns, a
\* Global line declaring the default delimiters, one declaring others and one
\* leaving both out, a
\* single Directory line, a Directory line of 75 columns, a Parameter record
\* without Directory entry and a second Terminate line.
OddLines ==
    << <<"S", "h", "o", "r", "t">>,
       PadRight(<<"1", "1", "6", ",", "1", ";">>, 71) \o <<"P">>,
       SectionLine(<<"x">>, "X"),
       <<>>,
       SectionLine(<<"h", "e", "a", "d">>, "S") \o <<"t", "a", "i", "l">>,
       SectionLine(<<"1", "H", ",", ",", "1", "H", ";", ",", "2", "H", "i", "d", ",", "7">>, "G"),
       SectionLine(<<"1", "H", "/", "/", "1", "H", "#", "/", "2", "H", "i", "d", "/", "7">>, "G"),
       SectionLine(<<",", ",", "2", "H", "i", "d", ",", "7">>, "G"),
       DirectoryLines(T116, <<"0">>)[1],
       SubSeq(DirectoryLines(T116, <<"0">>)[2], 1, 72) \o <<"D", " ", "1">>,
       ParameterLine(<<T116, D(4), D(5), D(6)>>),
       TerminateLine(<<"8">>) >>

\* The Terminate line of a file with n Directory entries: none, one that
\* declares the 2n Directory lines, one that declares 0 and one that declares
\* 2n + 2.
Terminates(n) ==
    {<<>>, <<TerminateLine(D(2 * n))>>, <<TerminateLine(D(0))>>, <<TerminateLine(D(2 * n + 2))>>}

\* The concatenation of seqs[lo..hi].
RECURSIVE FlattenRange(_, _, _)
FlattenRange(seqs, lo, hi) ==
    IF lo > hi THEN <<>>
    ELSE IF lo = hi THEN seqs[lo]
    ELSE FlattenRange(seqs, lo, (lo + hi) \div 2) \o FlattenRange(seqs, (lo + hi) \div 2 + 1, hi)

Flatten(seqs) == FlattenRange(seqs, 1, Len(seqs))

\* The text of a file: every line followed by the line ending.
Text(lines, eol) == Flatten([j \in 1..Len(lines) |-> lines[j] \o eol])

LF == <<"\n">>
CRLF == <<"\r", "\n">>

SeqsUpTo(S, n) == UNION {[1..k -> S] : k \in 0..n}

\* The kinds of EntityKinds an entity after the first one of a file is drawn
\* from.
FollowKinds == {1, 2, 11, 17, 18}

\* The entities of a file: none, or one of any kind followed by fewer than
\* MaxItems of the FollowKinds.
EntitySeqs ==
    {<<>>} \cup {<<k>> \o rest : k \in 1..Len(EntityKinds), rest \in SeqsUpTo(FollowKinds, MaxItems - 1)}

LinesOf(ks) == Flatten([j \in 1..Len(ks) |-> EntityLines(EntityKinds[ks[j]])])

\* Files of up to MaxItems entities, ended by one of the Terminate lines.
EntityFiles ==
    UNION {{Text(LinesOf(ks) \o t, LF) : t \in Terminates(Len(ks))} : ks \in EntitySeqs}

\* The lines of OddLines an odd line after the first one of a file is drawn
\* from.
FollowOdd == {1, 3, 9, 11}

OddSeqs ==
    {<<>>} \cup {<<k>> \o rest : k \in 1..Len(OddLines), rest \in SeqsUpTo(FollowOdd, MaxItems - 1)}

\* Files of up to MaxItems odd lines, followed by no or one point entity and
\* by no Terminate line or the one declaring two Directory lines, in both
\* line endings.
OddFiles ==
    {Text([j \in 1..Len(os) |-> OddLines[os[j]]] \o LinesOf(ks) \o t, eol) :
        os \in OddSeqs, ks \in {<<>>, <<1>>},
        t \in {<<>>, <<TerminateLine(D(2))>>}, eol \in {LF, CRLF}}

\* Files that declare "/" and "#" in their Global line and write the
\* Parameter record of their one point with them.
DelimitedFiles ==
    {Text(<<OddLines[7]>> \o DirectoryLines(T116, <<"0">>)
            \o <<SectionLine(Join(<<T116, D(10), D(20), D(30)>>, <<"/">>) \o <<"#">>, "P")>> \o t, LF) :
        t \in Terminates(1)}

\* Files of one point, after no or one other point, whose last Parameter
\* record is not ended by the terminator.
UnterminatedFiles ==
    {Text(LinesOf(ks) \o DirectoryLines(T116, <<"0">>)
            \o <<SectionLine(Join(<<T116, D(7), D(8), D(9)>>, <<",">>), "P")>> \o t, LF) :
        ks \in {<<>>, <<1>>}, t \in {<<>>, <<TerminateLine(D(2))>>, <<TerminateLine(D(4))>>}}

Inputs == EntityFiles \cup OddFiles \cup DelimitedFiles \cup UnterminatedFiles

(***************************************************************************)
(* The state of one call of IGESLoader.parse.                              *)
(***************************************************************************)
VARIABLES
    data,       \* the text passed to parse
    pc,         \* the statement parseIges is at
    lines,      \* const lines
    i,          \* the index of the line loop
    secs,       \* startSec, globalSec, dirSec, paramSec, terminateSec
    iges,       \* const iges = new IGES()
    cursor,     \* the position of the entity loop (1-based)
    geometry,   \* geometry.children
    console,    \* what was printed with console.warn / console.log
    arg,        \* the argument of a field decoder called on its own
    ret,        \* what that call returned
    ran,        \* the section parsers run so far, when they are run on their own
    calls       \* the callbacks load has invoked

vars == <<data, pc, lines, i, secs, iges, cursor, geometry, console, arg, ret, ran, calls>>

\* The state of parseIges.
parseVars == <<data, pc, lines, i, secs, iges, cursor, geometry, console>>

Init ==
    /\ data \in Inputs
    /\ pc = "split"
    /\ lines = <<>>
    /\ i = 0
    /\ secs = NoSections
    /\ iges = NewIGES
    /\ cursor = 1
    /\ geometry = <<>>
    /\ console = <<>>
    /\ arg = <<>>
    /\ ret = <<>>
    /\ ran = <<>>
    /\ calls = <<>>

\* const lines = data.split(/\r?\n/).filter(...)
SplitText ==
    /\ pc = "split"
    /\ lines' = Lines(data)
    /\ pc' = "lines"
    /\ UNCHANGED <<ran, calls, arg, ret, data, i, secs, iges, cursor, geometry, console>>

\* if (line.length < 73) { console.warn(...); continue; }
SkipShortLine ==
    /\ pc = "lines" /\ i < Len(lines)
    /\ TooShort(lines[i + 1])
    /\ console' = Append(console, Log("warn", "line too short", i))
    /\ i' = i + 1
    /\ UNCHANGED <<ran, calls, arg, ret, data, pc, lines, secs, iges, cursor, geometry>>

\* case "S", "G", "D", "P", "T"
ClassifyLine ==
    /\ pc = "lines" /\ i < Len(lines)
    /\ ~TooShort(lines[i + 1])
    /\ SectionOf(lines[i + 1]) \in {"S", "G", "D", "P", "T"}
    /\ secs' = AppendLine(secs, lines[i + 1])
    /\ i' = i + 1
    /\ UNCHANGED <<ran, calls, arg, ret, data, pc, lines, iges, cursor, geometry, console>>

\* default: console.warn(...)
SkipUnknownSection ==
    /\ pc = "lines" /\ i < Len(lines)
    /\ ~TooShort(lines[i + 1])
    /\ SectionOf(lines[i + 1]) \notin {"S", "G", "D", "P", "T"}
    /\ secs' = AppendLine(secs, lines[i + 1])
    /\ console' = Append(console, Log("warn", "unknown section type", i))
    /\ i' = i + 1
    /\ UNCHANGED <<ran, calls, arg, ret, data, pc, lines, iges, cursor, geometry>>

ParseStart ==
    /\ pc = "lines" /\ i >= Len(lines)
    /\ iges' = parseStart(iges, secs.startSec)
    /\ pc' = "parseGlobal"
    /\ UNCHANGED <<ran, calls, arg, ret, data, lines, i, secs, cursor, geometry, console>>

ParseGlobal ==
    /\ pc = "parseGlobal"
    /\ iges' = parseGlobal(iges, secs.globalSec)
    /\ pc' = "parseDirection"
    /\ UNCHANGED <<ran, calls, arg, ret, data, lines, i, secs, cursor, geometry, console>>

ParseDirection ==
    /\ pc = "parseDirection"
    /\ iges' = parseDirection(iges, secs.dirSec)
    /\ pc' = "parseParameter"
    /\ UNCHANGED <<ran, calls, arg, ret, data, lines, i, secs, cursor, geometry, console>>

ParseParameter ==
    /\ pc = "parseParameter"
    /\ iges' = parseParameter(iges, secs.paramSec)
    /\ pc' = "parseTerminate"
    /\ UNCHANGED <<ran, calls, arg, ret, data, lines, i, secs, cursor, geometry, console>>

ParseTerminate ==
    /\ pc = "parseTerminate"
    /\ ~InconsistentEntityCount(iges, secs.terminateSec)
    /\ iges' = parseTerminate(iges, secs.terminateSec)
    /\ pc' = "entities"
    /\ UNCHANGED <<ran, calls, arg, ret, data, lines, i, secs, cursor, geometry, console>>

\* throw new Error("ERROR: Inconsistent entity count")
ThrowInconsistent ==
    /\ pc = "parseTerminate"
    /\ InconsistentEntityCount(iges, secs.terminateSec)
    /\ iges' = parseTerminate(iges, secs.terminateSec)
    /\ pc' = "error"
    /\ UNCHANGED <<ran, calls, arg, ret, data, lines, i, secs, cursor, geometry, console>>

\* The entity loop adding each mesh in front of the earlier ones.
DrawEntityInFront ==
    /\ pc = "entities" /\ cursor <= Len(iges.entities)
    /\ ~LoopsForever(iges.entities[cursor])
    /\ LET d == Draw(iges.entities[cursor], cursor)
       IN  /\ geometry' = d.meshes \o geometry
           /\ console' = console \o d.logs
    /\ cursor' = cursor + 1
    /\ UNCHANGED <<ran, calls, arg, ret, data, pc, lines, i, secs, iges>>

\* One iteration of for (const entity of entities) whose handler returns.
DrawEntity ==
    /\ pc = "entities" /\ cursor <= Len(iges.entities)
    /\ ~LoopsForever(iges.entities[cursor])
    /\ LET d == Draw(iges.entities[cursor], cursor)
       IN  /\ geometry' = geometry \o d.meshes
           /\ console' = console \o d.logs
    /\ cursor' = cursor + 1
    /\ UNCHANGED <<ran, calls, arg, ret, data, pc, lines, i, secs, iges>>

\* An iteration whose handler loops up to +Infinity: parse does not return.
ExhaustMemory ==
    /\ pc = "entities" /\ cursor <= Len(iges.entities)
    /\ LoopsForever(iges.entities[cursor])
    /\ pc' = "exhausted"
    /\ UNCHANGED <<ran, calls, arg, ret, data, lines, i, secs, iges, cursor, geometry, console>>

\* return geometry
Return ==
    /\ pc = "entities" /\ cursor > Len(iges.entities)
    /\ pc' = "done"
    /\ UNCHANGED <<ran, calls, arg, ret, data, lines, i, secs, iges, cursor, geometry, console>>

Next ==
    \/ SplitText
    \/ SkipShortLine
    \/ ClassifyLine
    \/ SkipUnknownSection
    \/ ParseStart
    \/ ParseGlobal
    \/ ParseDirection
    \/ ParseParameter
    \/ ParseTerminate
    \/ ThrowInconsistent
    \/ DrawEntity
    \/ ExhaustMemory
    \/ Return

Spec == Init /\ [][Next]_vars

(***************************************************************************)
(* The claims, checked under Spec.                                         *)
(***************************************************************************)
\* parseTerminate has run.
AfterTerminate == pc \in {"entities", "done", "exhausted", "error"}

\* The Directory line count the Terminate section declares.
DeclaredD == TerminateCounts(secs.terminateSec).D

\* The meshes and the console.log lines of entity j.
MeshesOf(j) == {a \in 1..Len(geometry) : geometry[a].entity = j}
LogsOf(j) == {a \in 1..Len(console) : console[a].level = "log" /\ console[a].at = j}

\* The entity types the claims name as having an implemented handler.
HandledTypes == {T100, T106, T110, T116, T126}

\* C1: whenever the number of Directory records differs from the declared
\* Directory line count divided by 2, parse raises the fatal error and
\* produces no primitive.
C1_MismatchRaises ==
    (AfterTerminate /\ DeclaredD.k = "num" /\ 2 * Len(iges.entities) # IntOf(DeclaredD))
        => (pc = "error" /\ geometry = <<>>)

\* C2 as stated: when parse returns, the group holds one primitive per entity
\* of a handled type, and every entity of another type has no primitive and
\* a diagnostic.
C2_EveryOtherTypeLogs ==
    pc = "done" =>
        /\ Len(geometry) = Cardinality({j \in 1..Len(iges.entities) : iges.entities[j].type \in HandledTypes})
        /\ \A j \in 1..Len(iges.entities) :
              iges.entities[j].type \notin HandledTypes => (MeshesOf(j) = {} /\ LogsOf(j) # {})

\* C2 amended: when parse returns, the group holds one primitive per entity of
\* a handled type; every entity of another type has no primitive, and it has
\* a diagnostic when its type is not one the dispatch recognizes (the stubs
\* 102, 108, ..., 406 and 124 print none of their own for the type).
C2_PrimitiveCount ==
    pc = "done" =>
        /\ Len(geometry) = Cardinality({j \in 1..Len(iges.entities) : iges.entities[j].type \in HandledTypes})
        /\ \A j \in 1..Len(iges.entities) :
              iges.entities[j].type \notin HandledTypes =>
                 /\ MeshesOf(j) = {}
                 /\ iges.entities[j].type \notin (UnimplementedTypes \cup {T124}) =>
                       \E a \in LogsOf(j) : console[a].msg = "Uncompliment entity type"

C2_Witness ==
    /\ pc = "done" /\ Len(geometry) >= 1
    /\ \E j \in 1..Len(iges.entities) : iges.entities[j].type = T102
    /\ \E j \in 1..Len(iges.entities) : iges.entities[j].type = T110

\* The lines among the first n that are at least 73 characters long.
RECURSIVE LongLines(_, _)
LongLines(ls, n) ==
    IF n = 0 THEN <<>>
    ELSE LongLines(ls, n - 1) \o (IF Len(ls[n]) >= 73 THEN <<ls[n]>> ELSE <<>>)

\* C3: a line shorter than 73 characters is skipped with one warning and
\* reaches no section buffer, the lines processed so far give the buffers
\* they give without the short lines, and a text of N short lines only ends
\* in an empty group with N warnings and no error.
C3_ShortLinesSkipped ==
    pc # "split" =>
        /\ \A j \in 1..i :
              Cardinality({a \in 1..Len(console) :
                              console[a].msg = "line too short" /\ console[a].at = j - 1})
                 = (IF Len(lines[j]) < 73 THEN 1 ELSE 0)
        /\ secs = SplitFrom(LongLines(lines, i), 0, NoSections, <<>>).secs
        /\ (\A j \in 1..Len(lines) : Len(lines[j]) < 73) =>
              /\ pc \notin {"error", "exhausted"}
              /\ pc = "done" =>
                    /\ iges.entities = <<>> /\ geometry = <<>>
                    /\ Len(console) = Len(lines)

C3_Witness ==
    /\ pc = "done" /\ Len(lines) = 2
    /\ \A j \in 1..Len(lines) : Len(lines[j]) < 73
    /\ Len(console) = 2 /\ geometry = <<>>

\* C4: the primitives are in entity order, which is the order of the
\* 160-character windows of the Directory buffer: the meshes of the group
\* belong to strictly increasing entities, all of them already passed by the
\* entity loop, which has passed every entity when parse returns.
C4_EntityOrder ==
    pc \in {"entities", "done", "exhausted"} =>
        /\ \A a, b \in 1..Len(geometry) : a < b => geometry[a].entity < geometry[b].entity
        /\ \A a \in 1..Len(geometry) : geometry[a].entity < cursor
        /\ \A j \in 1..Len(iges.entities) :
              iges.entities[j].attr = DirectoryAttr(Substr(secs.dirSec, 160 * (j - 1), 160))
        /\ pc = "done" => cursor = Len(iges.entities) + 1

C4_Witness ==
    /\ pc = "done" /\ Len(geometry) = 2
    /\ geometry[1].entity = 1 /\ geometry[2].entity = 2
    /\ geometry[1].kind # geometry[2].kind

\* C5: an entity dispatched as type 116 whose parameters begin x, y, z has
\* exactly one mesh, a point cloud whose single position is (x, y, z).
C5_PointPosition ==
    pc \in {"entities", "done", "exhausted"} =>
        \A j \in 1..(cursor - 1) :
            LET ent == iges.entities[j]
            IN  (ent.type = T116 /\ Len(ent.params) >= 3) =>
                   /\ Cardinality(MeshesOf(j)) = 1
                   /\ \A a \in MeshesOf(j) :
                         /\ geometry[a].kind = "Points"
                         /\ geometry[a].points = << <<ent.params[1], ent.params[2], ent.params[3]>> >>

C5_Witness ==
    /\ pc = "done" /\ Len(geometry) = 1
    /\ iges.entities[1].type = T116
    /\ geometry[1].kind = "Points"
    /\ geometry[1].points = << <<Int2Num(10), Int2Num(20), Int2Num(30)>> >>

\* C6: an entity dispatched as type 110 whose form number is 0, 2 or not a
\* number, with six parameters, has exactly one mesh, a polyline of the two
\* points (x1, y1, z1) and (x2, y2, z2).
C6_LineEndpoints ==
    pc \in {"entities", "done", "exhausted"} =>
        \A j \in 1..(cursor - 1) :
            LET ent == iges.entities[j]
                form == ent.attr.formNumber
            IN  (/\ ent.type = T110
                 /\ form \in {Int2Num(0), Int2Num(2), NaN}
                 /\ Len(ent.params) = 6) =>
                   /\ Cardinality(MeshesOf(j)) = 1
                   /\ \A a \in MeshesOf(j) :
                         /\ geometry[a].kind = "Line"
                         /\ geometry[a].points =
                               << <<ent.params[1], ent.params[2], ent.params[3]>>,
                                  <<ent.params[4], ent.params[5], ent.params[6]>> >>

C6_Witness ==
    /\ pc = "done" /\ Len(geometry) = 1
    /\ iges.entities[1].type = T110
    /\ iges.entities[1].attr.formNumber = NaN
    /\ Len(geometry[1].points) = 2
    /\ geometry[1].points[2] = <<Int2Num(4), Int2Num(5), Int2Num(6)>>

\* The text with every "\n" replaced by "\r\n", and with an empty line put
\* after every line.
ToCRLF(text) ==
    Flatten([j \in 1..Len(text) |-> IF text[j] = "\n" THEN <<"\r", "\n">> ELSE <<text[j]>>])
WithBlankLines(text) ==
    Flatten([j \in 1..Len(text) |-> IF text[j] = "\n" THEN <<"\n", "\n">> ELSE <<text[j]>>])

\* Whether parseIges ends on the text as the call at hand did: the same
\* section buffers, entities, fatal-error outcome and primitives.
SameOutcome(text) ==
    LET o == parseIges(text)
    IN  /\ o.end = pc
        /\ o.secs = secs
        /\ o.entities = iges.entities
        /\ o.geometry = geometry

\* C9: for a text without carriage return, the text with "\r\n" for every
\* "\n" has the same section buffers, entities, fatal-error outcome and
\* primitives; and so has any text with empty lines added.
C9_LineEndingTolerance ==
    pc \in {"done", "error", "exhausted"} =>
        /\ (\A j \in 1..Len(data) : data[j] # "\r") => SameOutcome(ToCRLF(data))
        /\ SameOutcome(WithBlankLines(data))

C9_Witness ==
    /\ pc = "done" /\ Len(geometry) = 1
    /\ \A j \in 1..Len(data) : data[j] # "\r"
    /\ \E j \in 1..Len(lines) : Len(lines[j]) = 75
    /\ Len(Lines(ToCRLF(data))) = Len(lines)
    /\ Len(SplitLines(WithBlankLines(data))) > 2 * Len(lines)

\* C10: parse ends without a group only on the Directory/Terminate count
\* mismatch.
C10_OnlyMismatchIsFatal ==
    pc \in {"error", "exhausted"} =>
        (DeclaredD.k = "num" /\ 2 * Len(iges.entities) # IntOf(DeclaredD))

(***************************************************************************)
(* parseIgesString called on its own, on tokens of up to MaxChars          *)
(* characters after a count of up to MaxCount, on tokens with a count of   *)
(* two digits, and on tokens without "H".                                  *)
(***************************************************************************)
HollerithTokens ==
    {Dec(n) \o <<"H">> \o cs : n \in 0..MaxCount, cs \in SeqsUpTo({"A", "B", "C", "D", "H"}, MaxChars)}
PlainTokens == SeqsUpTo({"A", "1", ","}, MaxChars)
\* Tokens with a count of two digits, and up to MaxChars characters to spare.
LongText == <<"I", "G", "E", "S", " ", "F", "I", "L", "E", " ", "B", "Y", " ", "H", "A", "N", "D",
              " ", "1", "9", "9", "6", ";", ","," ", "X">>
LongTokens ==
    {Dec(n) \o <<"H">> \o SubSeq(LongText, 1, n + extra) : n \in 10..(9 + MaxCount), extra \in 0..MaxChars}

\* parseIges is not running.
Idle ==
    /\ data = <<>> /\ lines = <<>> /\ i = 0 /\ secs = NoSections /\ iges = NewIGES
    /\ cursor = 1 /\ geometry = <<>> /\ console = <<>>
    /\ ran = <<>> /\ calls = <<>>

InitString ==
    /\ Idle
    /\ pc = "parseIgesString"
    /\ arg \in HollerithTokens \cup LongTokens \cup PlainTokens
    /\ ret = <<>>

CallString ==
    /\ pc = "parseIgesString"
    /\ ret' = parseIgesString(arg)
    /\ pc' = "returned"
    /\ UNCHANGED <<ran, calls, arg, data, lines, i, secs, iges, cursor, geometry, console>>

NextString == CallString

SpecString == InitString /\ [][NextString]_vars

\* C7: for a token <n>H<chars> with at least n characters after the marker,
\* parseIgesString returns exactly the n characters after the marker; for a
\* token without "H" it returns undefined, and for one with "H" a string.
C7_Hollerith ==
    pc = "returned" =>
        /\ \A n \in 0..(9 + MaxCount) :
              LET head == Dec(n) \o <<"H">>
              IN  (MatchAt(arg, head, 0) /\ Len(arg) - Len(head) >= n) =>
                     ret = <<SubSeq(arg, Len(head) + 1, Len(head) + n)>>
        /\ (\A j \in 1..Len(arg) : arg[j] # "H") => ret = <<>>
        /\ (\E j \in 1..Len(arg) : arg[j] = "H") => Len(ret) = 1

C7_Witness ==
    /\ pc = "returned"
    /\ arg = <<"4", "H", "A", "B", "C", "D">>
    /\ ret = << <<"A", "B", "C", "D">> >>

(***************************************************************************)
(* parseDirection called on its own, on a Directory buffer of up to        *)
(* MaxRecords records written from known field values.                     *)
(***************************************************************************)
\* The columns (1-based, inclusive) of the fields of a Directory record.
DirectoryColumns ==
    << [name |-> "entityType", first |-> 1, last |-> 8],
       [name |-> "entityIndex", first |-> 9, last |-> 16],
       [name |-> "igesVersion", first |-> 17, last |-> 24],
       [name |-> "lineType", first |-> 25, last |-> 32],
       [name |-> "level", first |-> 33, last |-> 40],
       [name |-> "view", first |-> 41, last |-> 48],
       [name |-> "transMatrix", first |-> 49, last |-> 56],
       [name |-> "labelDisp", first |-> 57, last |-> 64],
       [name |-> "status", first |-> 65, last |-> 72],
       [name |-> "sequenceNumber", first |-> 74, last |-> 80],
       [name |-> "lineWidth", first |-> 89, last |-> 96],
       [name |-> "color", first |-> 97, last |-> 104],
       [name |-> "paramLine", first |-> 105, last |-> 112],
       [name |-> "formNumber", first |-> 113, last |-> 120],
       [name |-> "entityName", first |-> 137, last |-> 144],
       [name |-> "entitySub", first |-> 145, last |-> 152] >>

TextFields == {"status", "entityName"}

FormatInt(v) == IF v < 0 THEN <<"-">> \o Dec(-v) ELSE Dec(v)

\* The field values records are written from.
ValuePool == <<0, 1, 7, 116, -1, 1234567>>
PoolValue(k) == ValuePool[(k % Len(ValuePool)) + 1]

\* The text of the entity name field and the name it holds.
NameFields ==
    { [field |-> PadRight(<<"P", "T">>, 8), name |-> <<"P", "T">>],
      [field |-> PadLeft(<<"P", "T">>, 8), name |-> <<"P", "T">>],
      [field |-> <<"E", "N", "T", "I", "T", "Y", "0", "1">>,
       name |-> <<"E", "N", "T", "I", "T", "Y", "0", "1">>],
      [field |-> <<" ", "A", " ", "B", " ", " ", " ", " ">>, name |-> <<"A", " ", "B">>],
      [field |-> Spaces(8), name |-> <<>>] }

\* The known values of one record: the integer fields take the pool values
\* from place shift on.
KnownRecord(shift, nm) ==
    [entityType |-> PoolValue(shift), entityIndex |-> PoolValue(shift + 1),
     igesVersion |-> PoolValue(shift + 2), lineType |-> PoolValue(shift + 3),
     level |-> PoolValue(shift + 4), view |-> PoolValue(shift + 5),
     transMatrix |-> PoolValue(shift + 6), labelDisp |-> PoolValue(shift + 7),
     status |-> IF shift % 2 = 0 THEN <<"0", "0", "0", "0", "0", "0", "0", "0">>
                ELSE <<"0", "1", "0", "2", "0", "3", "0", "4">>,
     sequenceNumber |-> PoolValue(shift + 8), lineWidth |-> PoolValue(shift + 9),
     color |-> PoolValue(shift + 10), paramLine |-> PoolValue(shift + 11),
     formNumber |-> PoolValue(shift + 12), entityName |-> nm.name,
     entityNameField |-> nm.field, entitySub |-> PoolValue(shift + 13)]

\* The 160 characters of a record: every field right-justified in its
\* columns, the section tag in columns 73 and 153, and a "9" in every column
\* that belongs to no decoded field.
RecordText(known) ==
    [c \in 1..160 |->
        IF \E f \in 1..Len(DirectoryColumns) :
              DirectoryColumns[f].first <= c /\ c <= DirectoryColumns[f].last
        THEN LET col == DirectoryColumns[CHOOSE f \in 1..Len(DirectoryColumns) :
                            DirectoryColumns[f].first <= c /\ c <= DirectoryColumns[f].last]
                 width == col.last - col.first + 1
                 text == IF col.name = "status" THEN known.status
                         ELSE IF col.name = "entityName" THEN known.entityNameField
                         ELSE PadLeft(FormatInt(known[col.name]), width)
             IN  text[c - col.first + 1]
        ELSE IF c \in {73, 153} THEN "D" ELSE "9"]

KnownRecords == {KnownRecord(shift, nm) : shift \in 0..(Len(ValuePool) - 1), nm \in NameFields}

\* The records a record after the first one of a buffer is drawn from.
FollowRecords ==
    {r \in KnownRecords : r.entityType \in {116, -1} /\ r.entityName \in {<<"A", " ", "B">>, <<>>}}

\* Buffers of up to MaxRecords records.
KnownBuffers ==
    {<<r>> \o rest : r \in KnownRecords, rest \in SeqsUpTo(FollowRecords, MaxRecords - 1)}

InitDirectory ==
    /\ Idle
    /\ pc = "parseDirection"
    /\ \E known \in KnownBuffers :
          arg = [known |-> known,
                 data |-> Flatten([r \in 1..Len(known) |-> RecordText(known[r])])]
    /\ ret = <<>>

CallDirection ==
    /\ pc = "parseDirection"
    /\ ret' = parseDirection(NewIGES, arg.data).entities
    /\ pc' = "returned"
    /\ UNCHANGED <<ran, calls, arg, data, lines, i, secs, iges, cursor, geometry, console>>

NextDirectory == CallDirection

SpecDirectory == InitDirectory /\ [][NextDirectory]_vars

\* C8: parseDirection decodes one record per 160-character window, and every
\* field of it is the value the record was written from.
C8_DirectoryRoundTrip ==
    pc = "returned" =>
        /\ Len(ret) = Len(arg.known)
        /\ \A r \in 1..Len(arg.known) :
              \A f \in 1..Len(DirectoryColumns) :
                 LET name == DirectoryColumns[f].name
                 IN  ret[r].attr[name] =
                        (IF name \in TextFields THEN arg.known[r][name]
                         ELSE Int2Num(arg.known[r][name]))

C8_Witness ==
    /\ pc = "returned" /\ Len(ret) = 2
    /\ ret[1].attr.entityType = Int2Num(116) /\ ret[1].attr.entityName = <<"P", "T">>
    /\ ret[2].attr.sequenceNumber = Int2Num(1234567)
    /\ ret[2].attr.entityName = <<"A", " ", "B">>
(***************************************************************************)
(* The five section parsers run on their own, in any order, on the section *)
(* buffers of a file.                                                      *)
(***************************************************************************)
\* The entities of the files whose buffers the parsers are run on.
ParserKinds == {1, 19, 22}

\* The section buffers of files of up to MaxItems entities, with and without
\* a Global line that declares "/" and "#", ended by each Terminate line.
ParserBuffers ==
    UNION {{SplitFrom(g \o LinesOf(ks) \o t, 0, NoSections, <<>>).secs :
               g \in {<<>>, <<OddLines[7]>>}, t \in Terminates(Len(ks))} :
           ks \in SeqsUpTo(ParserKinds, MaxItems)}

InitParsers ==
    /\ data = <<>> /\ lines = <<>> /\ i = 0
    /\ secs \in ParserBuffers
    /\ iges = NewIGES
    /\ pc = "parsers"
    /\ cursor = 1 /\ geometry = <<>> /\ console = <<>>
    /\ arg = <<>> /\ ret = <<>> /\ ran = <<>> /\ calls = <<>>

\* The parser named p has run.
HasRun(p) == \E k \in 1..Len(ran) : ran[k] = p

RunParseStart ==
    /\ pc = "parsers" /\ ~HasRun("S")
    /\ iges' = parseStart(iges, secs.startSec)
    /\ ran' = Append(ran, "S")
    /\ UNCHANGED <<calls, arg, ret, data, pc, lines, i, secs, cursor, geometry, console>>

RunParseGlobal ==
    /\ pc = "parsers" /\ ~HasRun("G")
    /\ iges' = parseGlobal(iges, secs.globalSec)
    /\ ran' = Append(ran, "G")
    /\ UNCHANGED <<calls, arg, ret, data, pc, lines, i, secs, cursor, geometry, console>>

RunParseDirection ==
    /\ pc = "parsers" /\ ~HasRun("D")
    /\ iges' = parseDirection(iges, secs.dirSec)
    /\ ran' = Append(ran, "D")
    /\ UNCHANGED <<calls, arg, ret, data, pc, lines, i, secs, cursor, geometry, console>>

RunParseParameter ==
    /\ pc = "parsers" /\ ~HasRun("P")
    /\ iges' = parseParameter(iges, secs.paramSec)
    /\ ran' = Append(ran, "P")
    /\ UNCHANGED <<calls, arg, ret, data, pc, lines, i, secs, cursor, geometry, console>>

RunParseTerminate ==
    /\ pc = "parsers" /\ ~HasRun("T")
    /\ ~InconsistentEntityCount(iges, secs.terminateSec)
    /\ iges' = parseTerminate(iges, secs.terminateSec)
    /\ ran' = Append(ran, "T")
    /\ UNCHANGED <<calls, arg, ret, data, pc, lines, i, secs, cursor, geometry, console>>

\* parseTerminate throws: the parsers after it do not run.
RunParseTerminateThrows ==
    /\ pc = "parsers" /\ ~HasRun("T")
    /\ InconsistentEntityCount(iges, secs.terminateSec)
    /\ iges' = parseTerminate(iges, secs.terminateSec)
    /\ ran' = Append(ran, "T")
    /\ pc' = "error"
    /\ UNCHANGED <<calls, arg, ret, data, lines, i, secs, cursor, geometry, console>>

NextParsers ==
    \/ RunParseStart
    \/ RunParseGlobal
    \/ RunParseDirection
    \/ RunParseParameter
    \/ RunParseTerminate
    \/ RunParseTerminateThrows

SpecParsers == InitParsers /\ [][NextParsers]_vars

\* Parser a has run, and before parser b if b has run.
RanBefore(a, b) ==
    \E k \in 1..Len(ran) : ran[k] = a /\ \A m \in 1..k : ran[m] # b

\* The order of parseIges: what it assembles and whether it throws.
InCodeOrder == Assemble(secs)
ThrowsInCodeOrder == InconsistentEntityCount(InCodeOrder, secs.terminateSec)

\* C11 as stated: whatever the order of the five parsers, parseTerminate
\* throws exactly when it throws in the order of parseIges, and when all five
\* have run the entities are those of that order.
C11_AnyOrder ==
    /\ HasRun("T") => ((pc = "error") <=> ThrowsInCodeOrder)
    /\ (Len(ran) = 5 /\ pc # "error") => iges.entities = InCodeOrder.entities

\* C11 amended: parseStart and parseGlobal may run anywhere, but the outcome
\* is that of parseIges only when parseDirection runs before the parsers
\* that read the entities: parseTerminate throws as in the order of
\* parseIges when parseDirection ran before it, and the entities are those
\* of that order when parseDirection ran before parseParameter.
C11_DirectionFirst ==
    /\ (HasRun("T") /\ RanBefore("D", "T")) => ((pc = "error") <=> ThrowsInCodeOrder)
    /\ (Len(ran) = 5 /\ pc # "error" /\ RanBefore("D", "P")) =>
          iges.entities = InCodeOrder.entities

C11_Witness ==
    /\ Len(ran) = 5 /\ pc # "error"
    /\ ran = <<"D", "T", "P", "G", "S">>
    /\ secs.globalSec # <<>>
    /\ Len(iges.entities) = 2
    /\ iges.entities[1].type = T116 /\ Len(iges.entities[1].params) = 3
(***************************************************************************)
(* The claims about the assembly of the entities, checked under Spec.      *)
(***************************************************************************)
\* parseParameter has run.
AfterParameter == pc \in {"parseTerminate", "entities", "done", "exhausted", "error"}

\* The tokens of the Parameter records of a buffer split on the terminator
\* term and the delimiter field, the segment after the last terminator left
\* out.
RecordsBy(buf, term, field) ==
    LET segs == Pop(Split(buf, term))
    IN  [j \in 1..Len(segs) |-> Split(segs[j], field)]

\* C12: the Parameter records and their tokens are delimited by the
\* terminator and the field delimiter the Global section declares (";" and
\* "," when it declares none): every entity with a record at its index has
\* the record's first token as type and the rest as params.
C12_DeclaredDelimiters ==
    AfterParameter =>
        LET recs == RecordsBy(secs.paramSec, iges.termDelimiter, iges.fieldDelimiter)
        IN  \A j \in 1..Len(iges.entities) :
               j <= Len(recs) =>
                  /\ iges.entities[j].type = Head(recs[j])
                  /\ iges.entities[j].params =
                        [q \in 1..(Len(recs[j]) - 1) |-> parseIgesFloat(recs[j][q + 1])]
\* The Parameter records parseParameter reads from the buffer.
ParameterRecords == RecordsBy(secs.paramSec, <<";">>, <<",">>)

\* C13: whenever the number of Directory records differs from the number of
\* Parameter records, parse raises the fatal error and produces no primitive.
C13_RecordCountMismatchRaises ==
    (AfterTerminate /\ Len(iges.entities) # Len(ParameterRecords))
        => (pc = "error" /\ geometry = <<>>)
\* The entity has a form number its handler does not support: a type 106
\* form other than 12, 40 and 63, a numeric type 110 form other than 0 and 2.
UnsupportedForm(ent) ==
    LET form == NumToString(ent.attr.formNumber)
    IN  \/ ent.type = T106 /\ form \notin {<<"1", "2">>, <<"4", "0">>, <<"6", "3">>}
        \/ ent.type = T110 /\ ent.attr.formNumber.k # "nan" /\ form \notin {<<"0">>, <<"2">>}

\* C14: an entity with an unsupported form number adds nothing to the group
\* and prints a diagnostic.
C14_UnsupportedFormNoPrimitive ==
    pc \in {"entities", "done", "exhausted"} =>
        \A j \in 1..(cursor - 1) :
            UnsupportedForm(iges.entities[j]) => (MeshesOf(j) = {} /\ LogsOf(j) # {})
\* The line is one the splitter accepts and appends to the Directory buffer.
DirectoryTagged(line) == ~TooShort(line) /\ SectionOf(line) = "D"

\* The Directory lines among the lines the line loop has passed.
DirectoryLinesPassed == SelectSeq(SubSeq(lines, 1, i), DirectoryTagged)

\* C15: every accepted Directory line contributes exactly 80 characters to
\* the Directory buffer, its own, so that record j is decoded from the two
\* Directory lines 2j - 1 and 2j (counted from 1).
C15_DirectoryLines80 ==
    pc # "split" =>
        /\ Len(secs.dirSec) = 80 * Len(DirectoryLinesPassed)
        /\ \A k \in 1..Len(DirectoryLinesPassed) :
              Substr(secs.dirSec, 80 * (k - 1), 80) = Substr(DirectoryLinesPassed[k], 0, 80)
        /\ pc \in {"parseParameter", "parseTerminate", "entities", "done", "exhausted", "error"} =>
              \A j \in 1..Len(iges.entities) :
                 2 * j <= Len(DirectoryLinesPassed) =>
                    iges.entities[j].attr =
                       DirectoryAttr(Substr(DirectoryLinesPassed[2 * j - 1], 0, 80)
                                       \o Substr(DirectoryLinesPassed[2 * j], 0, 80))
\* The segments of the Parameter buffer, the empty one after the last
\* terminator left out.
ParameterSegments ==
    LET segs == Split(secs.paramSec, <<";">>)
    IN  IF segs[Len(segs)] = <<>> THEN Pop(segs) ELSE segs

\* C16: only the empty segment after the last terminator is discarded: every
\* other segment is a Parameter record, whose first token is the type and
\* whose other tokens, in order, are the params of the entity at its index.
C16_OnlyTrailingEmptyDiscarded ==
    AfterParameter =>
        \A j \in 1..Len(iges.entities) :
            j <= Len(ParameterSegments) =>
               LET tokens == Split(ParameterSegments[j], <<",">>)
               IN  /\ iges.entities[j].type = Head(tokens)
                   /\ iges.entities[j].params =
                         [q \in 1..(Len(tokens) - 1) |-> parseIgesFloat(tokens[q + 1])]
\* The Directory buffer with the parameter pointer (columns 9-16) and the
\* parameter line count (columns 105-112) of every 160-character window
\* overwritten: window w (from 0) of n points at n + 1 - w.
Repointed(buf) ==
    LET n == (Len(buf) + 159) \div 160
    IN  [c \in 1..Len(buf) |->
            LET w == (c - 1) \div 160
                off == (c - 1) % 160
                field == I8(Dec(n + 1 - w))
            IN  IF off \in 8..15 THEN field[off - 7]
                ELSE IF off \in 104..111 THEN field[off - 103]
                ELSE buf[c]]

\* C17: entity j has the attributes of the j-th window of the Directory
\* buffer and, when there is a j-th Parameter record, its type and params;
\* with every parameter pointer of the Directory buffer overwritten, every
\* entity has the same type and params as parseParameter has just given it.
C17_PositionalJoin ==
    AfterParameter =>
        /\ LET recs == ParameterRecords
           IN  \A j \in 1..Len(iges.entities) :
                  /\ iges.entities[j].attr = DirectoryAttr(Substr(secs.dirSec, 160 * (j - 1), 160))
                  /\ j <= Len(recs) =>
                        /\ iges.entities[j].type = Head(recs[j])
                        /\ iges.entities[j].params =
                              [q \in 1..(Len(recs[j]) - 1) |-> parseIgesFloat(recs[j][q + 1])]
        /\ pc = "parseTerminate" =>
              LET other == Assemble([secs EXCEPT !.dirSec = Repointed(@)]).entities
              IN  /\ Len(other) = Len(iges.entities)
                  /\ \A j \in 1..Len(other) :
                        /\ other[j].type = iges.entities[j].type
                        /\ other[j].params = iges.entities[j].params

C17_Witness ==
    /\ pc = "done" /\ Len(iges.entities) = 2 /\ Len(ParameterRecords) = 2
    /\ iges.entities[1].type = T110 /\ iges.entities[2].type = T116
    /\ iges.entities[2].attr.entityIndex = Int2Num(1)
    /\ iges.entities[2].params = <<Int2Num(10), Int2Num(20), Int2Num(30)>>
    /\ Assemble([secs EXCEPT !.dirSec = Repointed(@)]).entities[1].attr.entityIndex = Int2Num(3)
\* The section tag a line is classified by: none for a line that is skipped.
TagOf(line) == IF TooShort(line) THEN "" ELSE SectionOf(line)

\* Lines k and k + 1 do not carry the same one of the five tags, so that
\* exchanging them keeps the order of the lines of every tag.
Exchangeable(ls, k) ==
    ~(TagOf(ls[k]) = TagOf(ls[k + 1]) /\ TagOf(ls[k]) \in {"S", "G", "D", "P", "T"})

Exchanged(ls, k) ==
    [j \in 1..Len(ls) |-> IF j = k THEN ls[k + 1] ELSE IF j = k + 1 THEN ls[k] ELSE ls[j]]

\* C18: the parsers run after all lines have been split; the file with any
\* two neighbouring lines exchanged that do not carry the same tag gives the
\* same five buffers (such exchanges make up every reordering that keeps the
\* order of the lines of each tag); and the entities, the error outcome and
\* the primitives parse ends with are those the parsers and the entity loop
\* compute from the five buffers alone.
C18_InterleavingIndependent ==
    /\ pc \notin {"split", "lines"} =>
          (i = Len(lines) /\ secs = SplitFrom(lines, 0, NoSections, <<>>).secs)
    /\ pc \in {"done", "error", "exhausted"} =>
          /\ \A k \in 1..(Len(lines) - 1) :
                Exchangeable(lines, k) =>
                   SplitFrom(Exchanged(lines, k), 0, NoSections, <<>>).secs = secs
          /\ LET parsed == Assemble(secs)
                 drawn == DrawFrom(parsed.entities, 1, <<>>, <<>>)
             IN  /\ parsed.entities = iges.entities
                 /\ InconsistentEntityCount(parsed, secs.terminateSec) <=> pc = "error"
                 /\ pc # "error" => (drawn.end = pc /\ drawn.meshes = geometry)
                 /\ pc = "error" => geometry = <<>>

C18_Witness ==
    /\ pc = "done" /\ Len(geometry) = 2 /\ Len(lines) = 7
    /\ TagOf(lines[2]) = "D" /\ TagOf(lines[3]) = "P" /\ TagOf(lines[4]) = "D"
    /\ Exchangeable(lines, 3)
    /\ Exchanged(lines, 3) # lines
    /\ secs.dirSec # <<>> /\ secs.paramSec # <<>> /\ secs.terminateSec # <<>>
\* The type C19 has entity j dispatched on: the first token of the Parameter
\* record at its index, and the Directory type code when there is none.
DispatchType(j) ==
    IF j <= Len(ParameterRecords) THEN Head(ParameterRecords[j])
    ELSE NumToString(iges.entities[j].attr.entityType)

\* C19: every entity the loop has passed was drawn as an entity of that type
\* is drawn, and one without Parameter record has no params.
C19_DispatchType ==
    pc \in {"entities", "done", "exhausted"} =>
        \A j \in 1..(cursor - 1) :
            LET drawn == Draw([iges.entities[j] EXCEPT !.type = DispatchType(j)], j)
            IN  /\ iges.entities[j].type = DispatchType(j)
                /\ SelectSeq(geometry, LAMBDA m : m.entity = j) = drawn.meshes
                /\ SelectSeq(console, LAMBDA l : l.level = "log" /\ l.at = j) = drawn.logs
                /\ j > Len(ParameterRecords) => iges.entities[j].params = <<>>
(***************************************************************************)
(* IGESLoader.load from the moment FileLoader hands over the text: the     *)
(* callback that parses it, step by step as parseIges does, and reports to *)
(* onLoad, onError and the manager.                                        *)
(***************************************************************************)
\* The texts load retrieves: files of up to MaxItems entities, and one with
\* a short line and a line of an unknown section.
LoadKinds == {1, 11, 19}
LoadTexts ==
    UNION {{Text(LinesOf(ks) \o t, LF) : t \in Terminates(Len(ks))} :
           ks \in SeqsUpTo(LoadKinds, MaxItems)}
      \cup {Text(<<OddLines[1], OddLines[3]>> \o LinesOf(<<1>>), CRLF)}

Url == <<"m", ".", "i", "g", "s">>

\* What a throw statement throws: an Error, or a value that is none.
Thrown(isError, message) == [isError |-> isError, message |-> message]
InconsistentError == Thrown(TRUE, "ERROR: Inconsistent entity count")

\* What onLoad or onError may throw.
CallbackThrows == {Thrown(TRUE, "callback failed"), Thrown(FALSE, "callback failed")}

\* e instanceof Error ? e : new Error(String(e))
AsError(e) == IF e.isError THEN e ELSE Thrown(TRUE, e.message)

Call(fn, value) == [fn |-> fn, value |-> value]

\* The callback load gives FileLoader starts on the retrieved text.
InitLoad ==
    /\ data \in LoadTexts
    /\ arg \in [url : {Url}, onError : BOOLEAN]
    /\ pc = "split"
    /\ lines = <<>> /\ i = 0 /\ secs = NoSections /\ iges = NewIGES /\ cursor = 1
    /\ geometry = <<>> /\ console = <<>>
    /\ ret = <<>> /\ ran = <<>> /\ calls = <<>>

\* this.parse(text) throws: the catch block of load receives the Error.
CatchParseError ==
    /\ pc = "error"
    /\ ret' = <<InconsistentError>>
    /\ pc' = "caught"
    /\ UNCHANGED <<ran, calls, arg, data, lines, i, secs, iges, cursor, geometry, console>>

\* onLoad(group) returns.
OnLoadReturns ==
    /\ pc = "done"
    /\ calls' = Append(calls, Call("onLoad", geometry))
    /\ pc' = "loaded"
    /\ UNCHANGED <<ran, arg, ret, data, lines, i, secs, iges, cursor, geometry, console>>

\* onLoad(group) throws: the catch block of the same try receives it.
OnLoadThrows ==
    /\ pc = "done"
    /\ calls' = Append(calls, Call("onLoad", geometry))
    /\ \E e \in CallbackThrows : ret' = <<e>>
    /\ pc' = "caught"
    /\ UNCHANGED <<ran, arg, data, lines, i, secs, iges, cursor, geometry, console>>

\* catch (e), onError supplied and returning: onError(...), itemError(url).
CatchCallsOnError ==
    /\ pc = "caught" /\ arg.onError
    /\ calls' = calls \o <<Call("onError", AsError(ret[1])), Call("itemError", arg.url)>>
    /\ pc' = "failed"
    /\ UNCHANGED <<ran, arg, ret, data, lines, i, secs, iges, cursor, geometry, console>>

\* catch (e), onError supplied and throwing: the exception leaves the
\* callback before itemError is reached.
CatchOnErrorThrows ==
    /\ pc = "caught" /\ arg.onError
    /\ calls' = Append(calls, Call("onError", AsError(ret[1])))
    /\ \E e \in CallbackThrows : ret' = <<e>>
    /\ pc' = "uncaught"
    /\ UNCHANGED <<ran, arg, data, lines, i, secs, iges, cursor, geometry, console>>

\* catch (e), no onError: console.error(e), itemError(url).
CatchLogs ==
    /\ pc = "caught" /\ ~arg.onError
    /\ console' = Append(console, Log("error", ret[1].message, 0))
    /\ calls' = Append(calls, Call("itemError", arg.url))
    /\ pc' = "failed"
    /\ UNCHANGED <<ran, arg, ret, data, lines, i, secs, iges, cursor, geometry>>

NextLoad ==
    \/ SplitText
    \/ SkipShortLine
    \/ ClassifyLine
    \/ SkipUnknownSection
    \/ ParseStart
    \/ ParseGlobal
    \/ ParseDirection
    \/ ParseParameter
    \/ ParseTerminate
    \/ ThrowInconsistent
    \/ DrawEntity
    \/ ExhaustMemory
    \/ Return
    \/ CatchParseError
    \/ OnLoadReturns
    \/ OnLoadThrows
    \/ CatchCallsOnError
    \/ CatchOnErrorThrows
    \/ CatchLogs

SpecLoad == InitLoad /\ [][NextLoad]_vars

\* The number of invocations of the callback fn.
Invocations(fn) == Cardinality({k \in 1..Len(calls) : calls[k].fn = fn})

\* C20 as stated: when the callback of load has ended, exactly one of onLoad
\* and onError (when supplied) has been invoked, once; after a parse that
\* succeeded it is onLoad, with the group, and itemError is not called;
\* after a parse that raised it is onError, with an Error, and itemError is
\* called once.
C20_ExactlyOneCallback ==
    LET parsed == parseIges(data)
    IN  /\ ~(Invocations("onLoad") > 0 /\ Invocations("onError") > 0)
        /\ \A k \in 1..Len(calls) : calls[k].fn = "onError" => calls[k].value.isError
        /\ (pc \in {"loaded", "failed", "uncaught", "exhausted"} /\ parsed.end # "error") =>
              /\ calls = <<Call("onLoad", parsed.geometry)>>
        /\ (pc \in {"loaded", "failed", "uncaught", "exhausted"} /\ parsed.end = "error") =>
              /\ Invocations("onLoad") = 0
              /\ Invocations("onError") = (IF arg.onError THEN 1 ELSE 0)
              /\ Invocations("itemError") = 1

(***************************************************************************)
(* One loader on which parse is called again and again: every call runs    *)
(* parseIges on its own IGES instance, Group and section buffers.          *)
(***************************************************************************)
\* The number of calls of parse made before the last one.
MaxCalls == 2

\* The texts passed to parse: a point, the point with a Terminate line
\* declaring four Directory lines, a line and a point, a point after a
\* Global line declaring the delimiters / and #, a copious-data entity whose
\* count is 1D999, a text with a short line and a line of an unknown
\* section, and the empty text.
SessionTexts ==
    { Text(LinesOf(<<1>>) \o <<TerminateLine(D(2))>>, LF),
      Text(LinesOf(<<1>>) \o <<TerminateLine(D(4))>>, LF),
      Text(LinesOf(<<2, 1>>) \o <<TerminateLine(D(4))>>, LF),
      Text(<<OddLines[7]>> \o DirectoryLines(T116, <<"0">>)
             \o <<SectionLine(Join(<<T116, D(10), D(20), D(30)>>, <<"/">>) \o <<"#">>, "P"),
                  TerminateLine(D(2))>>, LF),
      Text(LinesOf(<<11>>) \o <<TerminateLine(D(2))>>, LF),
      Text(<<OddLines[1], OddLines[3]>> \o LinesOf(<<1>>), CRLF),
      <<>> }

\* Math.floor(Math.random() * 10000000): two of the numbers it may draw.
GroupNames == {0, 1}

\* new IGESLoader(): no call of parse has been made.
InitSession ==
    /\ Idle
    /\ pc = "loader"
    /\ arg = <<>>
    /\ ret = <<>>

\* parse(data) on a loader that kept the IGES instance of the call before.
BeginParseKeepingParser ==
    /\ pc = "loader" /\ Len(calls) <= MaxCalls
    /\ data' \in SessionTexts
    /\ \E n \in GroupNames : ret' = <<n>>
    /\ lines' = <<>> /\ i' = 0 /\ secs' = NoSections /\ cursor' = 1
    /\ geometry' = <<>>
    /\ pc' = "split"
    /\ UNCHANGED <<ran, calls, arg, iges, console>>

\* parse(data): parseIges starts with a new Group, named after a random
\* number, a new IGES and empty section buffers.
BeginParse ==
    /\ pc = "loader" /\ Len(calls) <= MaxCalls
    /\ data' \in SessionTexts
    /\ \E n \in GroupNames : ret' = <<n>>
    /\ lines' = <<>> /\ i' = 0 /\ secs' = NoSections /\ iges' = NewIGES /\ cursor' = 1
    /\ geometry' = <<>>
    /\ pc' = "split"
    /\ UNCHANGED <<ran, calls, arg, console>>

\* return parseIges(data): the caller has the group.
ParseReturned ==
    /\ pc = "done"
    /\ calls' = Append(calls, Call("parse", [text |-> data, end |-> "done"]))
    /\ pc' = "loader"
    /\ UNCHANGED <<ran, arg, ret, data, lines, i, secs, iges, cursor, geometry, console>>

\* The Error parseTerminate threw leaves parse.
ParseRaised ==
    /\ pc = "error"
    /\ calls' = Append(calls, Call("parse", [text |-> data, end |-> "error"]))
    /\ pc' = "loader"
    /\ UNCHANGED <<ran, arg, ret, data, lines, i, secs, iges, cursor, geometry, console>>

NextSession ==
    \/ BeginParse
    \/ SplitText
    \/ SkipShortLine
    \/ ClassifyLine
    \/ SkipUnknownSection
    \/ ParseStart
    \/ ParseGlobal
    \/ ParseDirection
    \/ ParseParameter
    \/ ParseTerminate
    \/ ThrowInconsistent
    \/ DrawEntity
    \/ ExhaustMemory
    \/ Return
    \/ ParseReturned
    \/ ParseRaised

SpecSession == InitSession /\ [][NextSession]_vars

\* C21: on one loader, after any earlier calls of parse, returned or raised,
\* a call of parse starts from the default delimiters, an empty entity list
\* and empty buffers, and ends with the entities, the outcome (returned,
\* raised, or never returning) and the primitives that parse of the same
\* text gives on a fresh loader; the name of the group is not compared.
C21_ParseCallsIndependent ==
    /\ pc = "split" =>
          /\ iges = NewIGES
          /\ secs = NoSections
          /\ geometry = <<>>
    /\ pc \in {"done", "error", "exhausted"} =>
          LET fresh == parseIges(data)
          IN  /\ fresh.end = pc
              /\ iges.entities = fresh.entities
              /\ geometry = fresh.geometry

\* C21 witness: the third call on a loader, after a call that raised and a
\* call on a text declaring other delimiters that returned, returns two
\* primitives for two entities.
C21_Witness ==
    /\ pc = "done"
    /\ Len(calls) = MaxCalls
    /\ \E k \in 1..Len(calls) : calls[k].value.end = "error"
    /\ \E k \in 1..Len(calls) :
          /\ calls[k].value.end = "done"
          /\ parseGlobal(NewIGES, SplitFrom(Lines(calls[k].value.text), 0, NoSections, <<>>).secs.globalSec).fieldDelimiter # <<",">>
    /\ Len(iges.entities) = 2
    /\ Len(geometry) = 2
    /\ iges.fieldDelimiter = <<",">>
=============================================================================
